---- MODULE Spec2Model ----
(***************************************************************************)
(* borgbahm.py: one run of main() -- privilege check, mount, environment   *)
(* initialisation, consistency check, backup + prune or restore, and the   *)
(* final unmount -- together with the helper functions it calls.           *)
(*                                                                         *)
(* Text (paths, command output) is a sequence of one-character strings.    *)
(* The external collaborators (mount, lsblk, umount, borg, the effective   *)
(* user id, the file system) answer nondeterministically.                  *)
(***************************************************************************)
EXTENDS Integers, Sequences, FiniteSets, TLC

\* ------------------------------------------------------------------ bounds
\* Exit statuses of the external commands range over 0..MaxRc
\* (0 clean, 1 warning, 2.. error).
MaxRc == 2
\* Longest `borg list` output (in characters) of the resolver specification.
MaxLen == 4

Rcs == 0..MaxRc

\* ------------------------------------------------------- program constants
RESULT_OK == 0
RESULT_ERROR_SUPER_USER_PRIVILEGES == 1
RESULT_ERROR_MOUNT_DEVICE == 2
RESULT_ERROR_UNMOUNT_DEVICE == 3
RESULT_ERROR_BORG_ENVIRONMENT == 4
RESULT_ERROR_INVALID_REPOSITORY == 5
RESULT_ERROR_BACKUP == 6
RESULT_ERROR_PRUNE == 7
RESULT_ERROR_RESTORE == 8

\* ------------------------------------------------------------ text helpers
\* Characters python's str.strip() removes (those of the model's alphabet).
Whitespace == {" ", "\t", "\n"}

\* Index of the first element of s that is in set cs, 0 when there is none.
RECURSIVE FirstIn(_, _, _)
FirstIn(s, cs, i) ==
    IF i > Len(s) THEN 0
    ELSE IF s[i] \in cs THEN i
    ELSE FirstIn(s, cs, i + 1)

\* str.lstrip() / str.rstrip() / str.strip() with no argument.
RECURSIVE LStrip(_)
LStrip(s) ==
    IF s # <<>> /\ Head(s) \in Whitespace THEN LStrip(Tail(s)) ELSE s

RECURSIVE RStrip(_)
RStrip(s) ==
    IF s # <<>> /\ s[Len(s)] \in Whitespace
    THEN RStrip(SubSeq(s, 1, Len(s) - 1))
    ELSE s

Strip(s) == RStrip(LStrip(s))

\* str.splitlines(): split at every line terminator; a terminator at the very
\* end does not start a further (empty) line, and "" has no lines.
RECURSIVE SplitLines(_)
SplitLines(s) ==
    IF s = <<>> THEN <<>>
    ELSE LET i == FirstIn(s, {"\n"}, 1)
         IN  IF i = 0 THEN <<s>>
             ELSE <<SubSeq(s, 1, i - 1)>> \o SplitLines(SubSeq(s, i + 1, Len(s)))

\* str.split(sep) for a one-character sep: every occurrence splits, empty
\* pieces are kept, and "" gives [""].
RECURSIVE SplitSep(_, _)
SplitSep(s, sep) ==
    LET i == FirstIn(s, {sep}, 1)
    IN  IF i = 0 THEN <<s>>
        ELSE <<SubSeq(s, 1, i - 1)>> \o SplitSep(SubSeq(s, i + 1, Len(s)), sep)

\* sep.join(parts)
RECURSIVE Join(_, _)
Join(parts, sep) ==
    IF parts = <<>> THEN <<>>
    ELSE IF Len(parts) = 1 THEN parts[1]
    ELSE parts[1] \o <<sep>> \o Join(Tail(parts), sep)

\* The component loop of os.path.normpath: drop "" and ".", resolve "..".
RECURSIVE NormComps(_, _, _)
NormComps(comps, acc, initial_slashes) ==
    IF comps = <<>> THEN acc
    ELSE LET comp == Head(comps)
             rest == Tail(comps)
         IN  IF comp = <<>> \/ comp = <<".">> THEN NormComps(rest, acc, initial_slashes)
             ELSE IF \/ comp # <<".", ".">>
                     \/ (initial_slashes = 0 /\ acc = <<>>)
                     \/ (acc # <<>> /\ acc[Len(acc)] = <<".", ".">>)
                  THEN NormComps(rest, Append(acc, comp), initial_slashes)
                  ELSE IF acc # <<>>
                       THEN NormComps(rest, SubSeq(acc, 1, Len(acc) - 1), initial_slashes)
                       ELSE NormComps(rest, acc, initial_slashes)

\* os.path.normpath (posix).
normpath(path) ==
    IF path = <<>> THEN <<".">>
    ELSE LET initial_slashes ==
                 IF Head(path) # "/" THEN 0
                 ELSE IF Len(path) >= 2 /\ path[2] = "/" /\ ~(Len(path) >= 3 /\ path[3] = "/")
                      THEN 2
                      ELSE 1
             comps == NormComps(SplitSep(path, "/"), <<>>, initial_slashes)
             joined == Join(comps, "/")
             full == [i \in 1..initial_slashes |-> "/"] \o joined
         IN  IF full = <<>> THEN <<".">> ELSE full

\* os.path.join(a, b) (posix, two arguments).
pathjoin(a, b) ==
    IF b # <<>> /\ Head(b) = "/" THEN b
    ELSE IF a = <<>> \/ a[Len(a)] = "/" THEN a \o b
    ELSE a \o <<"/">> \o b

\* ------------------------------------------------------------ environment
\* Spellings of the mount directory argument; all name the directory the
\* kernel reports as CanonDir (a single leading separator throughout).
CanonDir == <<"/", "m">>
OtherDir == <<"/", "x">>
MountDirs == { <<"/", "m">>, <<"/", "m", "/">>, <<"/", "m", "/", ".">> }
RepoName == <<"r">>
Passphrase == <<"p">>
Cwds == { <<"/", "h">> }
Euids == {0, 1000}
\* Where the device is bound: nowhere, at the mount directory, elsewhere.
Bindings == {"none", "dir", "other"}
\* `borg list` outputs the run may meet.
ListSamples == { <<>>, <<"a", " ", "x", "\n">>, <<"b", " ", "x", "\n">>, <<"a", "\n", "\n">> }
\* A listing comes with exit status 0 or 1; a failed `borg list` prints none.
ListAnswers == { a \in [rc : Rcs, out : ListSamples] : a.rc \in {0, 1} \/ a.out = <<>> }

\* Standard output of `lsblk -o MOUNTPOINT -nr <device>`: one line holding the
\* device's mountpoint, an empty line for a device that is mounted nowhere.
LsblkStdout(b) ==
    CASE b = "dir"   -> CanonDir \o <<"\n">>
      [] b = "other" -> OtherDir \o <<"\n">>
      [] OTHER       -> <<"\n">>

\* One external command run: its name, its variable argument, its exit
\* status and its standard output.
Cmd(c, a, rc, out) == [cmd |-> c, arg |-> a, rc |-> rc, out |-> out]
\* One call of a step function: its name, how it ended ("True", "False",
\* "Str" or the exception raised), the string returned (resolver only) and
\* the device binding when it was called.
Call(f, r, v, b) == [fn |-> f, ret |-> r, val |-> v, at |-> b]
BoolStr(b) == IF b THEN "True" ELSE "False"

\* ---------------------------------------------------------- the functions
privileges_check_superuser(euid) == euid = 0

\* device_is_mounted: exc is the exception raised ("none": returned ret).
device_is_mounted(dir_exists, mount_dir, lsblk_rc, lsblk_stdout) ==
    IF ~dir_exists
    THEN [exc |-> "none", ret |-> FALSE, cmds |-> <<>>]
    ELSE LET run == <<Cmd("lsblk", <<>>, lsblk_rc, lsblk_stdout)>>
             lines == SplitLines(Strip(lsblk_stdout))
         IN  IF lsblk_rc = 0
             THEN IF lines = <<>>
                  \* [0:1] of no lines is the empty list, and [0] of it raises
                  THEN [exc |-> "IndexError", ret |-> FALSE, cmds |-> run]
                  ELSE [exc |-> "none",
                        ret |-> normpath(mount_dir) = normpath(lines[1]),
                        cmds |-> run]
             ELSE [exc |-> "none", ret |-> FALSE, cmds |-> run]

\* Mutant of device_mount: the mount command's exit status decides.
device_mount_trusting_exit_status(dir_exists, mount_dir, mount_rc, lsblk_rc, lsblk_stdout) ==
    IF ~dir_exists
    THEN [exc |-> "none", ret |-> FALSE, cmds |-> <<>>, query |-> "none"]
    ELSE LET q == device_is_mounted(dir_exists, mount_dir, lsblk_rc, lsblk_stdout)
             run == <<Cmd("mount", mount_dir, mount_rc, <<>>)>> \o q.cmds
         IN  IF q.exc # "none"
             THEN [exc |-> q.exc, ret |-> FALSE, cmds |-> run, query |-> q.exc]
             ELSE [exc |-> "none", ret |-> (mount_rc = 0), cmds |-> run, query |-> BoolStr(q.ret)]

\* device_mount: the mount command's exit status is logged, never tested.
device_mount(dir_exists, mount_dir, mount_rc, lsblk_rc, lsblk_stdout) ==
    IF ~dir_exists
    THEN [exc |-> "none", ret |-> FALSE, cmds |-> <<>>, query |-> "none"]
    ELSE LET q == device_is_mounted(dir_exists, mount_dir, lsblk_rc, lsblk_stdout)
             run == <<Cmd("mount", mount_dir, mount_rc, <<>>)>> \o q.cmds
         IN  IF q.exc # "none"
             THEN [exc |-> q.exc, ret |-> FALSE, cmds |-> run, query |-> q.exc]
             ELSE [exc |-> "none", ret |-> q.ret, cmds |-> run, query |-> BoolStr(q.ret)]

\* device_unmount without its test of the exit status of umount.
device_unmount_ignoring_exit_status(dir_exists, mount_dir, lsblk_rc, lsblk_stdout, umount_rc) ==
    IF ~dir_exists
    THEN [exc |-> "none", ret |-> FALSE, cmds |-> <<>>, query |-> "none"]
    ELSE LET q == device_is_mounted(dir_exists, mount_dir, lsblk_rc, lsblk_stdout)
         IN  IF q.exc # "none"
             THEN [exc |-> q.exc, ret |-> FALSE, cmds |-> q.cmds, query |-> q.exc]
             ELSE IF q.ret
             THEN [exc |-> "none", ret |-> TRUE,
                   cmds |-> q.cmds \o <<Cmd("umount", mount_dir, umount_rc, <<>>)>>,
                   query |-> "True"]
             ELSE [exc |-> "none", ret |-> TRUE, cmds |-> q.cmds, query |-> "False"]

\* device_unmount: umount runs only when the directory exists and
\* device_is_mounted answers true.
device_unmount(dir_exists, mount_dir, lsblk_rc, lsblk_stdout, umount_rc) ==
    IF ~dir_exists
    THEN [exc |-> "none", ret |-> FALSE, cmds |-> <<>>, query |-> "none"]
    ELSE LET q == device_is_mounted(dir_exists, mount_dir, lsblk_rc, lsblk_stdout)
         IN  IF q.exc # "none"
             THEN [exc |-> q.exc, ret |-> FALSE, cmds |-> q.cmds, query |-> q.exc]
             ELSE IF q.ret
             THEN [exc |-> "none", ret |-> (umount_rc = 0),
                   cmds |-> q.cmds \o <<Cmd("umount", mount_dir, umount_rc, <<>>)>>,
                   query |-> "True"]
             ELSE [exc |-> "none", ret |-> TRUE, cmds |-> q.cmds, query |-> "False"]

borg_repo_url(mount_dir) == pathjoin(normpath(mount_dir), RepoName)

\* borg_init_environment satisfied by either of its two findings.
borg_init_environment_either(borg_installed, borg_repo_config_file_present) ==
    borg_installed \/ borg_repo_config_file_present

borg_init_environment(borg_installed, borg_repo_config_file_present) ==
    LET r1 == IF ~borg_installed THEN FALSE ELSE TRUE
    IN  IF ~borg_repo_config_file_present THEN FALSE ELSE r1

\* Mutant of borg_check_repository: the test of the exit status inverted.
borg_check_repository_inverted(cmd_return) ==
    IF cmd_return # 0 THEN TRUE ELSE FALSE

borg_check_repository(cmd_return) ==
    IF cmd_return = 0 THEN TRUE ELSE FALSE

borg_perform_backup(cmd_return) ==
    IF cmd_return = 0 \/ cmd_return = 1 THEN TRUE ELSE FALSE

\* result starts out True and the test of the exit status can only set it
\* to True again.
borg_perform_prune(cmd_return) ==
    IF cmd_return = 0 \/ cmd_return = 1 THEN TRUE ELSE TRUE

\* Mutant of borg_get_most_recent_archive_name: the first listed line, not
\* the last.
borg_get_most_recent_archive_name_first_line(returncode, stdout) ==
    IF returncode = 0 \/ returncode = 1
    THEN LET borg_archive_list == SplitLines(stdout)
         IN  IF borg_archive_list # <<>>
             THEN LET borg_most_recent_archive_line == Strip(borg_archive_list[1])
                  IN  IF borg_most_recent_archive_line # <<>>
                      THEN SplitSep(borg_most_recent_archive_line, " ")[1]
                      ELSE <<>>
             ELSE <<>>
    ELSE <<>>

borg_get_most_recent_archive_name(returncode, stdout) ==
    IF returncode = 0 \/ returncode = 1
    THEN LET borg_archive_list == SplitLines(stdout)
         IN  IF borg_archive_list # <<>>
             THEN LET borg_most_recent_archive_line ==
                          Strip(borg_archive_list[Len(borg_archive_list)])
                  IN  IF borg_most_recent_archive_line # <<>>
                      THEN SplitSep(borg_most_recent_archive_line, " ")[1]
                      ELSE <<>>
             ELSE <<>>
    ELSE <<>>

\* borg_perform_restore without its validation of the archive name.
borg_perform_restore_unvalidated(cwd_now, at, list_rc, list_out, extract_started, extract_rc) ==
    LET archive_to_restore == borg_get_most_recent_archive_name(list_rc, list_out)
        current_dir_backup == cwd_now
    IN  [exc |-> "none",
         ret |-> ~(~(extract_rc = 0) /\ ~(extract_rc = 1)),
         cmds |-> <<Cmd("borg list", <<>>, list_rc, list_out),
                    Cmd("borg extract", archive_to_restore, extract_rc, <<>>)>>,
         calls |-> <<Call("borg_get_most_recent_archive_name", "Str", archive_to_restore, at)>>,
         chdirs |-> << <<"/">>, current_dir_backup >>,
         cwd |-> current_dir_backup]

\* borg_perform_restore, given the answers of `borg list` and `borg extract`.
\* extract_started = FALSE: subprocess.run could not start borg extract and
\* raised OSError (the command is then recorded with exit status -1); nothing
\* catches it, so the os.chdir back is skipped. chdirs are the directories
\* passed to os.chdir, in order; extract runs after the first of them.
borg_perform_restore(cwd_now, at, list_rc, list_out, extract_started, extract_rc) ==
    LET archive_to_restore == borg_get_most_recent_archive_name(list_rc, list_out)
        listed == <<Cmd("borg list", <<>>, list_rc, list_out)>>
        resolved == <<Call("borg_get_most_recent_archive_name", "Str", archive_to_restore, at)>>
    IN  IF archive_to_restore = <<>>
        THEN [exc |-> "none", ret |-> FALSE, cmds |-> listed, calls |-> resolved,
              chdirs |-> <<>>, cwd |-> cwd_now]
        ELSE LET current_dir_backup == cwd_now
             IN  IF ~extract_started
                 THEN [exc |-> "OSError", ret |-> FALSE,
                       cmds |-> listed \o <<Cmd("borg extract", archive_to_restore, -1, <<>>)>>,
                       calls |-> resolved,
                       chdirs |-> << <<"/">> >>,
                       cwd |-> <<"/">>]
                 ELSE [exc |-> "none",
                       ret |-> ~(~(extract_rc = 0) /\ ~(extract_rc = 1)),
                       cmds |-> listed \o <<Cmd("borg extract", archive_to_restore, extract_rc, <<>>)>>,
                       calls |-> resolved,
                       chdirs |-> << <<"/">>, current_dir_backup >>,
                       cwd |-> current_dir_backup]


\* ------------------------------------------------------------------ state
VARIABLES
    args,        \* parsed command line: restore_mode, quiet_mode, debug_enabled, mount_dir
    pc,          \* the block of main() to run next; "returned" / "aborted" at the end
    result,      \* main()'s result variable, the exit code once pc = "returned"
    euid,        \* effective user id of the process
    dir_exists,  \* os.path.isdir(mount_dir)
    binding,     \* where the device is bound
    cwd,         \* working directory of the process
    cwd_log,     \* the working directories so far: the first one, then every os.chdir
    environ,     \* os.environ, the two borg variables (<<>>: unset)
    installed,   \* what borg_init_environment found: borg on the path, the config file
    steps,       \* the functions that have ended so far, in the order they ended
    cmds         \* the external commands run so far, in order

vars == <<args, pc, result, euid, dir_exists, binding, cwd, cwd_log, environ, installed, steps, cmds>>

Init ==
    /\ args \in [restore_mode : BOOLEAN, quiet_mode : BOOLEAN,
                 debug_enabled : BOOLEAN, mount_dir : MountDirs]
    /\ pc = "priv"
    /\ result = RESULT_OK
    /\ euid \in Euids
    /\ dir_exists \in BOOLEAN
    /\ binding \in Bindings
    /\ cwd \in Cwds
    /\ cwd_log = <<cwd>>
    /\ environ = [BORG_REPO |-> <<>>, BORG_PASSPHRASE |-> <<>>]
    /\ installed = [borg |-> FALSE, config |-> FALSE]
    /\ steps = <<>>
    /\ cmds = <<>>

\* ------------------------------------------------------- the blocks of main
\* Mutant of RunGated: a block that runs whatever result holds.
RunUngated(res) == TRUE

\* The gate in front of every block but the last: "if result == RESULT_OK".
RunGated(res) == res = RESULT_OK

\* "if result == RESULT_OK:" privilege check.
PrivCheck ==
    /\ pc = "priv"
    /\ pc' = "mount"
    /\ IF RunGated(result)
       THEN LET ok == privileges_check_superuser(euid)
            IN  /\ steps' = Append(steps, Call("privileges_check_superuser", BoolStr(ok), <<>>, binding))
                /\ result' = IF ~ok THEN RESULT_ERROR_SUPER_USER_PRIVILEGES ELSE result
       ELSE UNCHANGED <<steps, result>>
    /\ UNCHANGED <<args, euid, dir_exists, binding, cwd, cwd_log, environ, installed, cmds>>

\* "if result == RESULT_OK:" device_mount. A mount command that exits 0 leaves
\* the device bound at nb (not always at the directory asked for), one that
\* fails leaves the binding as it was; an exception of device_is_mounted ends
\* the run.
Mount ==
    /\ pc = "mount"
    /\ IF RunGated(result)
       THEN \E mount_rc \in Rcs, nb \in Bindings, lsblk_rc \in Rcs :
              \E r \in {device_mount(dir_exists, args.mount_dir, mount_rc, lsblk_rc, LsblkStdout(nb))} :
                LET inner == IF r.query = "none" THEN <<>>
                             ELSE <<Call("device_is_mounted", r.query, <<>>, nb)>>
                    how == IF r.exc # "none" THEN r.exc ELSE BoolStr(r.ret)
                IN  /\ dir_exists \/ (mount_rc = 0 /\ lsblk_rc = 0)
                    /\ (dir_exists /\ mount_rc = 0) \/ nb = binding
                    /\ binding' = IF dir_exists THEN nb ELSE binding
                    /\ cmds' = cmds \o r.cmds
                    /\ steps' = steps \o inner \o <<Call("device_mount", how, <<>>, binding)>>
                    /\ IF r.exc # "none"
                       THEN pc' = "aborted" /\ UNCHANGED result
                       ELSE /\ pc' = "init"
                            /\ result' = IF ~r.ret THEN RESULT_ERROR_MOUNT_DEVICE ELSE result
       ELSE pc' = "init" /\ UNCHANGED <<result, binding, cmds, steps>>
    /\ UNCHANGED <<args, euid, dir_exists, cwd, cwd_log, environ, installed>>

\* "if result == RESULT_OK:" borg_init_environment.
InitEnvironment ==
    /\ pc = "init"
    /\ pc' = "check"
    /\ IF RunGated(result)
       THEN \E borg_installed \in BOOLEAN, config_present \in BOOLEAN :
                LET ok == borg_init_environment(borg_installed, config_present)
                IN  /\ installed' = [borg |-> borg_installed, config |-> config_present]
                    /\ environ' = [BORG_REPO |-> borg_repo_url(args.mount_dir),
                                   BORG_PASSPHRASE |-> Passphrase]
                    /\ steps' = Append(steps, Call("borg_init_environment", BoolStr(ok), <<>>, binding))
                    /\ result' = IF ~ok THEN RESULT_ERROR_BORG_ENVIRONMENT ELSE result
       ELSE UNCHANGED <<environ, installed, steps, result>>
    /\ UNCHANGED <<args, euid, dir_exists, binding, cwd, cwd_log, cmds>>

\* "if result == RESULT_OK:" borg_check_repository.
CheckRepository ==
    /\ pc = "check"
    /\ pc' = "backup"
    /\ IF RunGated(result)
       THEN \E rc \in Rcs :
                LET ok == borg_check_repository(rc)
                IN  /\ cmds' = Append(cmds, Cmd("borg check", <<>>, rc, <<>>))
                    /\ steps' = Append(steps, Call("borg_check_repository", BoolStr(ok), <<>>, binding))
                    /\ result' = IF ~ok THEN RESULT_ERROR_INVALID_REPOSITORY ELSE result
       ELSE UNCHANGED <<cmds, steps, result>>
    /\ UNCHANGED <<args, euid, dir_exists, binding, cwd, cwd_log, environ, installed>>

\* "if result == RESULT_OK and not args.restore_mode:" borg_perform_backup.
Backup ==
    /\ pc = "backup"
    /\ pc' = "prune"
    /\ IF RunGated(result) /\ ~args.restore_mode
       THEN \E rc \in Rcs :
                LET ok == borg_perform_backup(rc)
                IN  /\ cmds' = Append(cmds, Cmd("borg create", <<>>, rc, <<>>))
                    /\ steps' = Append(steps, Call("borg_perform_backup", BoolStr(ok), <<>>, binding))
                    /\ result' = IF ~ok THEN RESULT_ERROR_BACKUP ELSE result
       ELSE UNCHANGED <<cmds, steps, result>>
    /\ UNCHANGED <<args, euid, dir_exists, binding, cwd, cwd_log, environ, installed>>

\* The prune step without its test of the restore flag.
PruneInAnyMode ==
    /\ pc = "prune"
    /\ pc' = "restore"
    /\ IF RunGated(result)
       THEN \E rc \in Rcs :
                LET ok == borg_perform_prune(rc)
                IN  /\ cmds' = Append(cmds, Cmd("borg prune", <<>>, rc, <<>>))
                    /\ steps' = Append(steps, Call("borg_perform_prune", BoolStr(ok), <<>>, binding))
                    /\ result' = IF ~ok THEN RESULT_ERROR_PRUNE ELSE result
       ELSE UNCHANGED <<cmds, steps, result>>
    /\ UNCHANGED <<args, euid, dir_exists, binding, cwd, cwd_log, environ, installed>>

\* "if result == RESULT_OK and not args.restore_mode:" borg_perform_prune.
Prune ==
    /\ pc = "prune"
    /\ pc' = "restore"
    /\ IF RunGated(result) /\ ~args.restore_mode
       THEN \E rc \in Rcs :
                LET ok == borg_perform_prune(rc)
                IN  /\ cmds' = Append(cmds, Cmd("borg prune", <<>>, rc, <<>>))
                    /\ steps' = Append(steps, Call("borg_perform_prune", BoolStr(ok), <<>>, binding))
                    /\ result' = IF ~ok THEN RESULT_ERROR_PRUNE ELSE result
       ELSE UNCHANGED <<cmds, steps, result>>
    /\ UNCHANGED <<args, euid, dir_exists, binding, cwd, cwd_log, environ, installed>>

\* "if result == RESULT_OK and args.restore_mode:" the progress line calls
\* borg_get_most_recent_archive_name unless quiet, then borg_perform_restore
\* calls it again. An exception of borg_perform_restore ends the run.
Restore ==
    /\ pc = "restore"
    /\ IF RunGated(result) /\ args.restore_mode
       THEN \E l1 \in ListAnswers, l2 \in ListAnswers, started \in BOOLEAN, rc3 \in Rcs :
              \E r \in {borg_perform_restore(cwd, binding, l2.rc, l2.out, started, rc3)} :
                LET shown == borg_get_most_recent_archive_name(l1.rc, l1.out)
                    how == IF r.exc # "none" THEN r.exc ELSE BoolStr(r.ret)
                IN  /\ ~args.quiet_mode \/ (l1.rc = 0 /\ l1.out = <<>>)
                    /\ r.chdirs # <<>> \/ (started /\ rc3 = 0)
                    /\ started \/ rc3 = 0
                    /\ cmds' = cmds
                               \o (IF ~args.quiet_mode
                                   THEN <<Cmd("borg list", <<>>, l1.rc, l1.out)>> ELSE <<>>)
                               \o r.cmds
                    /\ steps' = steps
                                \o (IF ~args.quiet_mode
                                    THEN <<Call("borg_get_most_recent_archive_name", "Str", shown, binding)>>
                                    ELSE <<>>)
                                \o r.calls
                                \o <<Call("borg_perform_restore", how, <<>>, binding)>>
                    /\ cwd' = r.cwd
                    /\ cwd_log' = cwd_log \o r.chdirs
                    /\ IF r.exc # "none"
                       THEN pc' = "aborted" /\ UNCHANGED result
                       ELSE /\ pc' = "unmount"
                            /\ result' = IF ~r.ret THEN RESULT_ERROR_RESTORE ELSE result
       ELSE pc' = "unmount" /\ UNCHANGED <<cmds, steps, cwd, cwd_log, result>>
    /\ UNCHANGED <<args, euid, dir_exists, binding, environ, installed>>

\* device_unmount, whatever result holds; its failure overwrites result. A zero
\* exit status of umount removes the binding.
Unmount ==
    /\ pc = "unmount"
    /\ \E lsblk_rc \in Rcs, umount_rc \in Rcs :
         \E r \in {device_unmount(dir_exists, args.mount_dir, lsblk_rc, LsblkStdout(binding), umount_rc)} :
           LET inner == IF r.query = "none" THEN <<>>
                        ELSE <<Call("device_is_mounted", r.query, <<>>, binding)>>
               how == IF r.exc # "none" THEN r.exc ELSE BoolStr(r.ret)
               umounted == r.query = "True"
           IN  /\ dir_exists \/ lsblk_rc = 0
               /\ umounted \/ umount_rc = 0
               /\ cmds' = cmds \o r.cmds
               /\ steps' = steps \o inner \o <<Call("device_unmount", how, <<>>, binding)>>
               /\ binding' = IF umounted /\ umount_rc = 0 THEN "none" ELSE binding
               /\ IF r.exc # "none"
                  THEN pc' = "aborted" /\ UNCHANGED result
                  ELSE /\ pc' = "returned"
                       /\ result' = IF ~r.ret THEN RESULT_ERROR_UNMOUNT_DEVICE ELSE result
    /\ UNCHANGED <<args, euid, dir_exists, cwd, cwd_log, environ, installed>>

Next ==
    \/ PrivCheck
    \/ Mount
    \/ InitEnvironment
    \/ CheckRepository
    \/ Backup
    \/ Prune
    \/ Restore
    \/ Unmount

Spec == Init /\ [][Next]_vars

\* --------------------------------------- borg_get_most_recent_archive_name
\* The resolver on its own: every `borg list` output of at most MaxLen
\* characters over Alphabet, with every exit status.
Alphabet == {"a", "b", " ", "\t", "\n"}
Texts == UNION { [1..n -> Alphabet] : n \in 0..MaxLen }

InitResolver ==
    /\ args = [restore_mode |-> TRUE, quiet_mode |-> TRUE,
               debug_enabled |-> FALSE, mount_dir |-> CanonDir]
    /\ pc = "resolve"
    /\ result = RESULT_OK
    /\ euid = 0
    /\ dir_exists = TRUE
    /\ binding = "dir"
    /\ cwd = <<"/">>
    /\ cwd_log = <<cwd>>
    /\ environ = [BORG_REPO |-> borg_repo_url(CanonDir), BORG_PASSPHRASE |-> Passphrase]
    /\ installed = [borg |-> TRUE, config |-> TRUE]
    /\ steps = <<>>
    /\ cmds = <<>>

Resolve ==
    /\ pc = "resolve"
    /\ pc' = "resolved"
    /\ \E rc \in Rcs, out \in Texts :
           /\ cmds' = <<Cmd("borg list", <<>>, rc, out)>>
           /\ steps' = <<Call("borg_get_most_recent_archive_name", "Str",
                              borg_get_most_recent_archive_name(rc, out), binding)>>
    /\ UNCHANGED <<args, result, euid, dir_exists, binding, cwd, cwd_log, environ, installed>>

NextResolver == Resolve

SpecResolver == InitResolver /\ [][NextResolver]_vars

\* ----------------------------------------------------------------- claims
\* What the claims read off a run of main().
Finished == pc \in {"returned", "aborted"}
GatedFns == {"privileges_check_superuser", "device_mount", "borg_init_environment",
             "borg_check_repository", "borg_perform_backup", "borg_perform_prune",
             "borg_perform_restore"}
BorgCmds == {"borg check", "borg create", "borg prune", "borg list", "borg extract"}
StepIdx(f) == { i \in DOMAIN steps : steps[i].fn = f }
CmdIdx(c) == { i \in DOMAIN cmds : cmds[i].cmd = c }
FailedGated == { i \in DOMAIN steps : steps[i].fn \in GatedFns /\ steps[i].ret = "False" }
\* The exit code main() records for a failure of gated step f.
FailureCode(f) ==
    CASE f = "privileges_check_superuser" -> 1
      [] f = "device_mount"               -> 2
      [] f = "borg_init_environment"      -> 4
      [] f = "borg_check_repository"      -> 5
      [] f = "borg_perform_backup"        -> 6
      [] f = "borg_perform_prune"         -> 7
      [] f = "borg_perform_restore"       -> 8
\* Position of a step of main(), and of the commands only that step runs.
StepRank(f) ==
    CASE f = "privileges_check_superuser" -> 1
      [] f = "device_mount"               -> 2
      [] f = "borg_init_environment"      -> 3
      [] f = "borg_check_repository"      -> 4
      [] f = "borg_perform_backup"        -> 5
      [] f = "borg_perform_prune"         -> 6
      [] f = "borg_perform_restore"       -> 7
CmdRank(c) ==
    CASE c = "mount"        -> 2
      [] c = "borg check"   -> 4
      [] c = "borg create"  -> 5
      [] c = "borg prune"   -> 6
      [] c = "borg list"    -> 7
      [] c = "borg extract" -> 7
      [] OTHER              -> 0
\* The names in a trace, in order.
FnsOf(seq) == [i \in DOMAIN seq |-> seq[i].fn]
CmdsOf(seq) == [i \in DOMAIN seq |-> seq[i].cmd]
IsGatedOrUnmount(c) == c.fn \in GatedFns \cup {"device_unmount"}

\* C1 (as claimed): every run of main(), however its steps end, calls
\* device_unmount exactly once, after every gated step that ran and before it
\* ends.
C1_CleanupAlways ==
    Finished =>
        /\ Cardinality(StepIdx("device_unmount")) = 1
        /\ \A i \in StepIdx("device_unmount") :
               \A j \in DOMAIN steps : steps[j].fn \in GatedFns => j < i

\* C2 (as claimed): first failure wins -- when main() returns after a gated
\* step recorded a failure, the exit code is that step's code, also when the
\* final unmount failed too; 3 is returned only when no gated step failed.
C2_FirstFailureWins ==
    pc = "returned" =>
        \A i \in FailedGated : result = FailureCode(steps[i].fn)

\* C3: short-circuit -- once a gated step of main() has failed, no later
\* gated step is called and no command of a later step is run; only
\* device_unmount (with its mountpoint query) still runs.
C3_ShortCircuit ==
    \A i \in FailedGated :
        /\ \A j \in DOMAIN steps :
               j > i => steps[j].fn \in {"device_is_mounted", "device_unmount"}
        /\ \A k \in DOMAIN cmds : CmdRank(cmds[k].cmd) <= StepRank(steps[i].fn)

\* C3 witness: a run that returned after borg_perform_backup failed and
\* device_unmount was still called.
C3_Witness ==
    /\ pc = "returned"
    /\ \E i \in FailedGated : steps[i].fn = "borg_perform_backup"
    /\ StepIdx("device_unmount") # {}

\* Every collaborator answers with success: super user, the directory exists,
\* borg and the repository's config file are found, every command exits 0 and
\* lsblk reports the device at the mount directory.
AllSucceed ==
    /\ euid = 0
    /\ dir_exists
    /\ installed.borg /\ installed.config
    /\ \A k \in DOMAIN cmds :
           /\ cmds[k].rc = 0
           /\ cmds[k].cmd = "lsblk" => cmds[k].out = LsblkStdout("dir")

C5_AtMostOncePerOperation ==
    \A c \in BorgCmds : Cardinality(CmdIdx(c)) <= 1

\* C6 (as claimed): borg_perform_prune returns true iff the prune command's
\* exit status is 0 or 1, and false for any other status (so that main()
\* records the prune failure).
C6_PrunePredicate ==
    \A i \in StepIdx("borg_perform_prune") : \A k \in CmdIdx("borg prune") :
        (steps[i].ret = "True") <=> (cmds[k].rc \in {0, 1})

\* C7 (as claimed): a call of device_unmount with the directory present and
\* the device not mounted at it (mounted elsewhere or nowhere) returns true
\* and umount is not invoked.
C7_UnmountIdempotent ==
    \A i \in StepIdx("device_unmount") :
        (dir_exists /\ steps[i].at # "dir") =>
            /\ steps[i].ret = "True"
            /\ CmdIdx("umount") = {}

\* The calls of device_is_mounted and the lsblk runs, call k making run k.
IsMountedCall(c) == c.fn = "device_is_mounted"
IsLsblk(c) == c.cmd = "lsblk"
IsMountedCalls == SelectSeq(steps, IsMountedCall)
LsblkRuns == SelectSeq(cmds, IsLsblk)

\* C8 (as claimed): device_is_mounted always returns a boolean, and it is
\* true iff the directory exists, lsblk exited 0 and the mountpoint lsblk
\* reported is the mount directory; in every other case -- also when lsblk
\* exits 0 and reports no mountpoint -- it returns false.
C8_IsMountedFailsClosed ==
    /\ Len(IsMountedCalls) = Len(LsblkRuns)
    /\ \A k \in DOMAIN IsMountedCalls :
           /\ IsMountedCalls[k].ret \in {"True", "False"}
           /\ (IsMountedCalls[k].ret = "True") <=>
                  (dir_exists /\ LsblkRuns[k].rc = 0 /\ IsMountedCalls[k].at = "dir")

\* C9: device_mount returns true iff the directory exists and the
\* device_is_mounted check made after the mount command reported true,
\* whatever the mount command's exit status; with the directory present the
\* mount command runs first and the query second, and without the directory
\* neither is run.
C9_MountVerified ==
    \A i \in StepIdx("device_mount") :
        /\ steps[i].ret \in {"True", "False"} =>
               ((steps[i].ret = "True") <=>
                    (/\ dir_exists
                     /\ i > 1
                     /\ steps[i - 1].fn = "device_is_mounted"
                     /\ steps[i - 1].ret = "True"))
        /\ dir_exists =>
               /\ Len(cmds) >= 2
               /\ cmds[1].cmd = "mount"
               /\ cmds[2].cmd = "lsblk"
               /\ Cardinality(CmdIdx("mount")) = 1
        /\ ~dir_exists => (CmdIdx("mount") = {} /\ CmdIdx("lsblk") = {})

\* C9 witness: the mount command exited 0, the check after it reported
\* false, and device_mount returned false.
C9_Witness ==
    \E i \in StepIdx("device_mount") :
        /\ steps[i].ret = "False"
        /\ dir_exists
        /\ cmds[1].cmd = "mount" /\ cmds[1].rc = 0
        /\ steps[i - 1].fn = "device_is_mounted" /\ steps[i - 1].ret = "False"

\* What the resolver claims read off a call: the listing and the name.
SetMax(S) == CHOOSE m \in S : \A n \in S : n <= m
SetMin(S) == CHOOSE m \in S : \A n \in S : m <= n
IsBlank(l) == \A i \in DOMAIN l : l[i] \in Whitespace
RECURSIVE DropTrailingBlank(_)
DropTrailingBlank(ls) ==
    IF ls # <<>> /\ IsBlank(ls[Len(ls)])
    THEN DropTrailingBlank(SubSeq(ls, 1, Len(ls) - 1))
    ELSE ls
\* The first whitespace-delimited token of l (<<>> for a blank l).
FirstToken(l) ==
    LET ns == { i \in DOMAIN l : l[i] \notin Whitespace }
    IN  IF ns = {} THEN <<>>
        ELSE LET b == SetMin(ns)
                 ws == { i \in b..Len(l) : l[i] \in Whitespace }
             IN  SubSeq(l, b, IF ws = {} THEN Len(l) ELSE SetMin(ws) - 1)
\* The first token of the last non-blank line of out.
LastNonBlankLineToken(out) ==
    LET ls == DropTrailingBlank(SplitSep(out, "\n"))
    IN  IF ls = <<>> THEN <<>> ELSE FirstToken(ls[Len(ls)])
\* The last line of a non-empty out, a final line terminator ending the last
\* line rather than starting another.
LastLine(out) ==
    LET t == IF out[Len(out)] = "\n" THEN SubSeq(out, 1, Len(out) - 1) ELSE out
        nl == { i \in DOMAIN t : t[i] = "\n" }
    IN  SubSeq(t, IF nl = {} THEN 1 ELSE SetMax(nl) + 1, Len(t))
\* Of line l: from its first non-whitespace character up to the first space
\* character that has a non-whitespace character after it, or to its last
\* non-whitespace character (<<>> for a blank l).
FirstSpaceField(l) ==
    LET ns == { i \in DOMAIN l : l[i] \notin Whitespace }
    IN  IF ns = {} THEN <<>>
        ELSE LET b == SetMin(ns)
                 e == SetMax(ns)
                 sp == { i \in b..e : l[i] = " " }
             IN  SubSeq(l, b, IF sp = {} THEN e ELSE SetMin(sp) - 1)

C11_EmptyOrNoWhitespace ==
    \A i \in StepIdx("borg_get_most_recent_archive_name") :
        pc = "resolved" =>
            /\ cmds[i].rc \notin {0, 1} => steps[i].val = <<>>
            /\ IsBlank(cmds[i].out) => steps[i].val = <<>>
            /\ \A k \in DOMAIN steps[i].val : steps[i].val[k] \notin Whitespace

\* C12 (as claimed): once borg_perform_restore has ended -- whatever `borg
\* list` and `borg extract` answered, and also when borg extract could not be
\* started -- the working directory is the one the run started in; and borg
\* extract, when invoked, runs with working directory "/".
C12_ScopedChdir ==
    \A i \in StepIdx("borg_perform_restore") :
        /\ cwd = cwd_log[1]
        /\ CmdIdx("borg extract") # {} => (Len(cwd_log) >= 2 /\ cwd_log[2] = <<"/">>)

C14_ModeExclusive ==
    /\ args.restore_mode =>
           /\ CmdIdx("borg create") = {} /\ CmdIdx("borg prune") = {}
           /\ StepIdx("borg_perform_backup") = {} /\ StepIdx("borg_perform_prune") = {}
    /\ ~args.restore_mode =>
           /\ CmdIdx("borg list") = {} /\ CmdIdx("borg extract") = {}
           /\ StepIdx("borg_get_most_recent_archive_name") = {}
           /\ StepIdx("borg_perform_restore") = {}

\* C14 witness: a finished restore run whose consistency check passed and that
\* invoked `borg list` and `borg extract`.
C14_Witness ==
    /\ pc = "returned"
    /\ args.restore_mode
    /\ \E k \in CmdIdx("borg check") : cmds[k].rc = 0
    /\ CmdIdx("borg list") # {}
    /\ \E e \in CmdIdx("borg extract") : cmds[e].rc = 0

\* C15 (as claimed): borg_check_repository returns true iff `borg check`
\* exited with status 0 (status 1 fails it); `borg create`, `borg prune`,
\* `borg list` and `borg extract` are invoked only in a run whose `borg check`
\* exited with status 0; and a run whose `borg check` exited with another
\* status returns the consistency error, 5.
C15_StrictConsistencyGate ==
    /\ \A k \in CmdIdx("borg check") :
           \E s \in StepIdx("borg_check_repository") :
               steps[s].ret = "True" <=> cmds[k].rc = 0
    /\ (\E j \in DOMAIN cmds :
            cmds[j].cmd \in {"borg create", "borg prune", "borg list", "borg extract"})
           => \E k \in CmdIdx("borg check") : cmds[k].rc = 0
    /\ (pc = "returned" /\ \E k \in CmdIdx("borg check") : cmds[k].rc # 0)
           => result = 5

\* C16: when the resolver called inside borg_perform_restore returned the
\* empty string, borg_perform_restore returned false, `borg extract` was not
\* invoked, no os.chdir was made (the working directory is the one the run
\* started in), and when main() reaches the unmount step its result is 8.
C16_NoArchiveFailsRestore ==
    \A i \in StepIdx("borg_perform_restore") :
        steps[i - 1].val = <<>> =>
            /\ steps[i - 1].fn = "borg_get_most_recent_archive_name"
            /\ steps[i].ret = "False"
            /\ CmdIdx("borg extract") = {}
            /\ cwd_log = <<cwd>>
            /\ pc = "unmount" => result = 8

\* C16 witness: `borg list` exits 0 with a listing whose last line is blank,
\* the resolver inside borg_perform_restore returns the empty string, and
\* main() stands before the unmount step with result 8.
C16_Witness ==
    /\ pc = "unmount"
    /\ result = 8
    /\ \E i \in StepIdx("borg_perform_restore") :
           /\ steps[i - 1].fn = "borg_get_most_recent_archive_name"
           /\ steps[i - 1].val = <<>>
           /\ steps[i].ret = "False"
    /\ \E l \in CmdIdx("borg list") : cmds[l].rc = 0 /\ cmds[l].out # <<>>

\* C17: before borg_init_environment is called neither variable is bound;
\* from its return to the end of the run BORG_REPO is the repository location
\* and BORG_PASSPHRASE the passphrase it was called with, whether or not borg
\* was found and whether or not the config file exists; and it returned true
\* iff borg was found and the config file exists.
C17_BindingUnconditional ==
    /\ StepIdx("borg_init_environment") = {} =>
           environ = [BORG_REPO |-> <<>>, BORG_PASSPHRASE |-> <<>>]
    /\ \A s \in StepIdx("borg_init_environment") :
           /\ environ = [BORG_REPO |-> borg_repo_url(args.mount_dir),
                         BORG_PASSPHRASE |-> Passphrase]
           /\ steps[s].ret = "True" <=> (installed.borg /\ installed.config)

\* C17 witness: a finished run in which borg was found, the config file was
\* missing, borg_init_environment returned false and both variables are bound.
C17_Witness ==
    /\ pc = "returned"
    /\ installed.borg /\ ~installed.config
    /\ \E s \in StepIdx("borg_init_environment") : steps[s].ret = "False"
    /\ environ = [BORG_REPO |-> <<"/", "m", "/", "r">>, BORG_PASSPHRASE |-> <<"p">>]

C19_RunReturnsExitCode ==
    /\ pc # "aborted"
    /\ Finished => (pc = "returned" /\ result \in 0..8)

\* C20 (as claimed), in the form one run can refute. A quiet run invokes
\* `borg list` only inside borg_perform_restore, once per call; if the quiet
\* flag changed nothing but the progress lines, the same would hold of every
\* run: `borg list` is invoked as often as borg_perform_restore is called.
\* And in a restore run that is not quiet, the archive name announced (what
\* the first resolver call returned) is the name passed to `borg extract`.
C20_QuietOnlySuppressesProgress ==
    /\ Cardinality(CmdIdx("borg list")) = Cardinality(StepIdx("borg_perform_restore"))
    /\ ~args.quiet_mode =>
           \A e \in CmdIdx("borg extract") :
               steps[SetMin(StepIdx("borg_get_most_recent_archive_name"))].val = cmds[e].arg

====
